---- MODULE Spec2Model ----
\* The command registry of the bot (CommandsModule): hot-reloading registry
\* with debounced file-change handling, lookups, export and dispatch.
\* Every async method is cut at its awaits of real asynchronous work (the
\* debounce timer, Loadable.destroy(), Loadable.load(), execute()): one
\* action runs the code from one such await to the next.
EXTENDS Integers, Sequences, FiniteSets, TLC

\* ---------------------------------------------------------------- bounds
\* descriptors constructed over a run
MaxDesc == 3
\* watcher 'change' events over a run
MaxChanges == 2
\* onCommandFileChanged invocations alive at once (each owns one timer)
MaxHandlers == 2

\* ------------------------------------------------------------- constants
\* static FILE_UPDATE_TIMEOUT = 1000 * 10 (milliseconds)
FILE_UPDATE_TIMEOUT == 1000 * 10
\* the clock advances by half a debounce window
TickMs == FILE_UPDATE_TIMEOUT \div 2

\* ECommandType
SLASH == "SLASH"
USER_CONTEXT_MENU == "USER_CONTEXT_MENU"
CHAT_CONTEXT_MENU == "CHAT_CONTEXT_MENU"
ECommandType == {SLASH, USER_CONTEXT_MENU, CHAT_CONTEXT_MENU}

\* ELoadableState
UNLOADED == "UNLOADED"
LOADING == "LOADING"
LOADED == "LOADED"
DESTROYING == "DESTROYING"
DESTROYED == "DESTROYED"
ELoadableState == {UNLOADED, LOADING, LOADED, DESTROYING, DESTROYED}

\* ------------------------------------------------------- the file system
\* A path is its stem and its extension, so that endsWith(".js") is computed.
JsPaths == {[stem |-> "p1", ext |-> "js"], [stem |-> "p2", ext |-> "js"]}
OtherPaths == {[stem |-> "README", ext |-> "md"]}
Paths == JsPaths \cup OtherPaths
NoPath == [stem |-> "", ext |-> ""]

\* fs.promises.readdir(coreCommandsPath): the files of the commands directory
commandsToImport ==
    << [stem |-> "p1", ext |-> "js"], [stem |-> "README", ext |-> "md"],
       [stem |-> "p2", ext |-> "js"] >>

Names == {"ping", "add"}
\* property names every plain object inherits from Object.prototype
ObjectPrototypeKeys == {"constructor"}
Groups == {"", "list"} \cup ObjectPrototypeKeys

\* What a command file's default export constructs: the descriptor's type,
\* name and group, or a constructor that throws.
Module(ty, n, g, th) == [type |-> ty, name |-> n, group |-> g, throws |-> th]
Modules ==
    { Module(SLASH, "ping", "", FALSE),
      Module(SLASH, "add", "list", FALSE),
      Module(SLASH, "add", "constructor", FALSE),
      Module(USER_CONTEXT_MENU, "ping", "", FALSE),
      Module(CHAT_CONTEXT_MENU, "ping", "", FALSE),
      Module(SLASH, "ping", "", TRUE) }
NoModule == Module("", "", "", FALSE)
\* a path with no file behind it: require(path) throws MODULE_NOT_FOUND
Missing == Module("", "", "", TRUE)
\* the modules the files hold while they are being edited and reloaded
EditedModules ==
    { Module(SLASH, "ping", "", FALSE),
      Module(SLASH, "add", "list", FALSE),
      Module(SLASH, "ping", "", TRUE) }

\* ------------------------------------------------------------------ state
VARIABLES
    desc,                     \* every CommandBase constructed so far, by identity
    commands,                 \* Map uniqueId -> descriptor (0: no entry)
    pathsToCommands,          \* Map path -> descriptor
    slashCommands,            \* Map name -> descriptor
    pendingFileUpdate,        \* Map path -> timer (the handler that owns it)
    userContextMenuCommands,  \* Map name -> descriptor
    chatContextMenuCommands,  \* Map name -> descriptor
    watched,                  \* the paths added to the chokidar watcher
    requireCache,             \* require.cache: path -> module as last loaded
    tasks,                    \* the async calls in flight: onLoad (0), handlers
    files,                    \* the command files on disk
    changes,                  \* number of 'change' events so far
    sinceChange,              \* per path, ms since its last 'change' event
    observed,                 \* what the last lookup / dispatch / export returned
    logged                    \* number of errors the last step passed to log()

vars == << desc, commands, pathsToCommands, slashCommands, pendingFileUpdate,
           userContextMenuCommands, chatContextMenuCommands, watched,
           requireCache, tasks, files, changes, sinceChange, observed,
           logged >>

BootTask == 0
Handlers == 1..MaxHandlers
TaskIds == {BootTask} \cup Handlers

IdleTask ==
    [pc |-> "idle", path |-> NoPath, idx |-> 0, cmd |-> 0, old |-> 0,
     bWatch |-> FALSE, armed |-> FALSE, remaining |-> 0, events |-> 0]

NoObs == [op |-> "none"]

\* get uniqueId() { return `${this.type}${this.name}` }
uniqueId(d) == << d.type, d.name >>
UniqueIds == ECommandType \X Names

\* The registry as one value, so that a handler's statements compose.
Reg ==
    [desc |-> desc, commands |-> commands, pathsToCommands |-> pathsToCommands,
     slashCommands |-> slashCommands, pendingFileUpdate |-> pendingFileUpdate,
     userContextMenuCommands |-> userContextMenuCommands,
     chatContextMenuCommands |-> chatContextMenuCommands, watched |-> watched,
     requireCache |-> requireCache, tasks |-> tasks, logged |-> 0]

\* the state after construction, the command files holding modules of ms
Constructed(ms) ==
    /\ desc = << >>
    /\ commands = [u \in UniqueIds |-> 0]
    /\ pathsToCommands = [p \in Paths |-> 0]
    /\ slashCommands = [n \in Names |-> 0]
    /\ pendingFileUpdate = [p \in Paths |-> 0]
    /\ userContextMenuCommands = [n \in Names |-> 0]
    /\ chatContextMenuCommands = [n \in Names |-> 0]
    /\ watched = {}
    /\ requireCache = [p \in Paths |-> NoModule]
    /\ tasks = [t \in TaskIds |-> IdleTask]
    /\ files \in [JsPaths -> ms]
    /\ changes = 0
    /\ sinceChange = [p \in Paths |-> FILE_UPDATE_TIMEOUT]
    /\ observed = NoObs
    /\ logged = 0

Init == Constructed(EditedModules)

\* --------------------------------------------------------------- Loadable
\* Loadable.load() as called: the state is LOADING until its promise settles.
load(r, d) == [r EXCEPT !.desc[d].state = LOADING]
\* Loadable.load() as its promise resolves.
loaded(r, d) == [r EXCEPT !.desc[d].state = LOADED]
\* Loadable.destroy() as called (destroys counts the calls).
destroy(r, d) ==
    [r EXCEPT !.desc[d].state = DESTROYING, !.desc[d].destroys = @ + 1]
\* Loadable.destroy() as its promise resolves.
destroyed(r, d) == [r EXCEPT !.desc[d].state = DESTROYED]

\* ------------------------------------------------------------- addCommand
\* await command.load(), up to the await
addCommandLoad(r, t) ==
    [load(r, r.tasks[t].cmd) EXCEPT !.tasks[t].pc = "load"]

\* this.chatContextMenuCommands.set(command.name, command)
setChatContextMenuCommand(r, c) ==
    [r EXCEPT !.chatContextMenuCommands[r.desc[c].name] = c]

\* this.slashCommands.set(command.name, command)
setSlashCommand(r, c) ==
    [r EXCEPT !.slashCommands[r.desc[c].name] = c]

\* this.userContextMenuCommands.set(command.name, command)
setUserContextMenuCommand(r, c) ==
    [r EXCEPT !.userContextMenuCommands[r.desc[c].name] = c]

\* await <occupant>.destroy(), up to the await
awaitDestroy(r, t, o) ==
    [destroy(r, o) EXCEPT !.tasks[t].pc = "addDestroy", !.tasks[t].old = o]

\* addChatContextMenuCommand, up to its await or to its end
addChatContextMenuCommand(r, t, c) ==
    LET o == r.chatContextMenuCommands[r.desc[c].name]
    IN  IF o # 0 THEN awaitDestroy(r, t, o)
        ELSE setChatContextMenuCommand(r, c)

\* addSlashCommand with the occupant's destroy() started but not awaited
addSlashCommandNotAwaited(r, t, c) ==
    LET o == r.slashCommands[r.desc[c].name]
    IN  IF o # 0 THEN setSlashCommand(destroy(r, o), c)
        ELSE setSlashCommand(r, c)

\* addSlashCommand, up to its await or to its end
addSlashCommand(r, t, c) ==
    LET o == r.slashCommands[r.desc[c].name]
    IN  IF o # 0 THEN awaitDestroy(r, t, o)
        ELSE setSlashCommand(r, c)

\* addUserContextMenuCommand, up to its await or to its end
addUserContextMenuCommand(r, t, c) ==
    LET o == r.userContextMenuCommands[r.desc[c].name]
    IN  IF o # 0 THEN awaitDestroy(r, t, o)
        ELSE setUserContextMenuCommand(r, c)

\* the switch of addCommand on command.type
addByType(r, t, c) ==
    CASE r.desc[c].type = CHAT_CONTEXT_MENU -> addChatContextMenuCommand(r, t, c)
      [] r.desc[c].type = SLASH -> addSlashCommand(r, t, c)
      [] r.desc[c].type = USER_CONTEXT_MENU -> addUserContextMenuCommand(r, t, c)
      [] OTHER -> r

\* the add*Command of command.type, resumed after its await of destroy()
setByType(r, c) ==
    CASE r.desc[c].type = CHAT_CONTEXT_MENU -> setChatContextMenuCommand(r, c)
      [] r.desc[c].type = SLASH -> setSlashCommand(r, c)
      [] r.desc[c].type = USER_CONTEXT_MENU -> setUserContextMenuCommand(r, c)
      [] OTHER -> r

\* addCommand(command), up to its first await
addCommand(r, t, c) ==
    LET r1 == [r EXCEPT !.commands[uniqueId(r.desc[c])] = c,
                        !.tasks[t].cmd = c]
        r2 == addByType(r1, t, c)
    IN  IF r2.tasks[t].pc = "addDestroy" THEN r2 ELSE addCommandLoad(r2, t)

\* ---------------------------------------------------------- importCommand
\* onCommandFileChanged after importCommand returned: pendingFileUpdate.delete
changedDelete(r, t) ==
    [r EXCEPT !.pendingFileUpdate[r.tasks[t].path] = 0,
              !.tasks[t].pc = "done"]

\* importCommand returned to the caller that awaits it: the loop of onLoad
\* goes to its next file, onCommandFileChanged goes on to its last statement.
importReturn(r, t) ==
    IF t = BootTask
    THEN [r EXCEPT !.tasks[t].pc = "bootLoop", !.tasks[t].idx = @ + 1,
                   !.tasks[t].cmd = 0, !.tasks[t].old = 0]
    ELSE changedDelete(r, t)

\* log(`Error loading ${importPath}`, error) in the catch of importCommand
logError(r) == [r EXCEPT !.logged = @ + 1]

\* new (require(importPath).default)() where the constructor returns
construct(r, m) ==
    [r EXCEPT !.desc = Append(@, [type |-> m.type, name |-> m.name,
                                  group |-> m.group, state |-> UNLOADED,
                                  destroys |-> 0])]

\* require(importPath): the cached module, else the file as it is on disk
require(r, importPath, disk) ==
    IF r.requireCache[importPath] # NoModule \/ disk[importPath] = Missing
    THEN r
    ELSE [r EXCEPT !.requireCache[importPath] = disk[importPath]]

\* what require(importPath) evaluates to once require(...) has run
required(r, importPath) ==
    IF r.requireCache[importPath] = NoModule THEN Missing
    ELSE r.requireCache[importPath]

\* importCommand with the construction outside any try/catch: the error
\* rejects the call, and with it the caller that awaits it
importCommandUncaught(r, t, importPath, bWatch, disk) ==
    IF importPath.ext # "js" THEN importReturn(r, t)
    ELSE
      LET r0 == [r EXCEPT !.tasks[t].path = importPath,
                          !.tasks[t].bWatch = bWatch]
          r1 == IF r0.pathsToCommands[importPath] # 0
                THEN [r0 EXCEPT !.requireCache[importPath] = NoModule]
                ELSE r0
          r2 == require(r1, importPath, disk)
          m  == required(r2, importPath)
      IN  IF m.throws
          THEN [r2 EXCEPT !.tasks[t].pc =
                              IF t = BootTask THEN "ready" ELSE "done"]
          ELSE LET r3 == construct(r2, m)
               IN  addCommand(r3, t, Len(r3.desc))

\* importCommand(importPath, plugin, bWatch), up to its first await
importCommand(r, t, importPath, bWatch, disk) ==
    IF importPath.ext # "js" THEN importReturn(r, t)
    ELSE
      LET r0 == [r EXCEPT !.tasks[t].path = importPath,
                          !.tasks[t].bWatch = bWatch]
          r1 == IF r0.pathsToCommands[importPath] # 0
                THEN [r0 EXCEPT !.requireCache[importPath] = NoModule]
                ELSE r0
          r2 == require(r1, importPath, disk)
          m  == required(r2, importPath)
      IN  IF m.throws THEN importReturn(logError(r2), t)
          ELSE LET r3 == construct(r2, m)
               IN  addCommand(r3, t, Len(r3.desc))

\* importCommand after `await this.addCommand(command)`
importCommandWatch(r, t) ==
    LET p == r.tasks[t].path
    IN  IF r.tasks[t].bWatch
        THEN [r EXCEPT !.pathsToCommands[p] = r.tasks[t].cmd,
                       !.watched = @ \cup {p}]
        ELSE r

\* A finished handler whose timer no map entry refers to is garbage.
Release(r) ==
    [r EXCEPT !.tasks = [t \in TaskIds |->
        IF /\ r.tasks[t].pc = "done"
           /\ \A p \in Paths : r.pendingFileUpdate[p] # t
        THEN IdleTask ELSE r.tasks[t]]]

\* The step's effect on the registry; a step that is not a read forgets the
\* last read.
Becomes(r0) ==
    LET r == Release(r0) IN
    /\ desc' = r.desc
    /\ commands' = r.commands
    /\ pathsToCommands' = r.pathsToCommands
    /\ slashCommands' = r.slashCommands
    /\ pendingFileUpdate' = r.pendingFileUpdate
    /\ userContextMenuCommands' = r.userContextMenuCommands
    /\ chatContextMenuCommands' = r.chatContextMenuCommands
    /\ watched' = r.watched
    /\ requireCache' = r.requireCache
    /\ tasks' = r.tasks
    /\ observed' = NoObs
    /\ logged' = r.logged

\* ------------------------------------------------------------------ onLoad
\* onLoad(): the directory is read and the import loop starts
onLoad ==
    /\ tasks[BootTask].pc = "idle"
    /\ Becomes([Reg EXCEPT !.tasks[BootTask].pc = "bootLoop",
                           !.tasks[BootTask].idx = 1])
    /\ UNCHANGED << files, changes, sinceChange >>

\* one iteration of the loop of onLoad, up to the await inside importCommand
onLoadImport ==
    LET i == tasks[BootTask].idx IN
    /\ tasks[BootTask].pc = "bootLoop"
    /\ Len(desc) < MaxDesc
    /\ IF i <= Len(commandsToImport)
       THEN Becomes(importCommand(Reg, BootTask, commandsToImport[i], TRUE, files))
       ELSE Becomes([Reg EXCEPT !.tasks[BootTask].pc = "ready"])
    /\ UNCHANGED << files, changes, sinceChange >>

\* the await of <occupant>.destroy() in add*Command resolves: the new
\* descriptor is set in its table and addCommand calls command.load()
AddDestroyDone(t) ==
    /\ tasks[t].pc = "addDestroy"
    /\ Becomes(addCommandLoad(setByType(destroyed(Reg, tasks[t].old),
                                        tasks[t].cmd), t))
    /\ UNCHANGED << files, changes, sinceChange >>

\* the await of command.load() in addCommand resolves: importCommand tracks
\* the path when bWatch, and returns to its caller
LoadDone(t) ==
    /\ tasks[t].pc = "load"
    /\ Becomes(importReturn(importCommandWatch(loaded(Reg, tasks[t].cmd), t), t))
    /\ UNCHANGED << files, changes, sinceChange >>

\* ---------------------------------------------------- onCommandFileChanged
\* setTimeout(r, FILE_UPDATE_TIMEOUT) and timeout.refresh(): the timer is
\* (re)armed to fire FILE_UPDATE_TIMEOUT from now
arm(r, t) ==
    [r EXCEPT !.tasks[t].armed = TRUE,
              !.tasks[t].remaining = FILE_UPDATE_TIMEOUT]

\* this.pendingFileUpdate.has(path)
hasPending(r, path) == r.pendingFileUpdate[path] # 0

\* One more event is coalesced into the timer handler t still awaits
\* (history: the size of the burst).
coalesced(r, t) ==
    IF r.tasks[t].pc = "timer" THEN [r EXCEPT !.tasks[t].events = @ + 1] ELSE r

\* onCommandFileChanged where a repeated event returns without refreshing
onCommandFileChangedNoRefresh(r, path, h) ==
    IF hasPending(r, path)
    THEN coalesced(r, r.pendingFileUpdate[path])
    ELSE arm([r EXCEPT !.tasks[h] = [IdleTask EXCEPT !.pc = "timer",
                                                     !.path = path,
                                                     !.events = 1],
                       !.pendingFileUpdate[path] = h], h)

\* onCommandFileChanged(path), up to its await of the timer; h is the handler
\* (and the timer) a first event allocates
onCommandFileChanged(r, path, h) ==
    IF hasPending(r, path)
    THEN coalesced(arm(r, r.pendingFileUpdate[path]), r.pendingFileUpdate[path])
    ELSE arm([r EXCEPT !.tasks[h] = [IdleTask EXCEPT !.pc = "timer",
                                                     !.path = path,
                                                     !.events = 1],
                       !.pendingFileUpdate[path] = h], h)

\* onCommandFileChanged reloading whatever state the tracked descriptor is in
onCommandFileChangedExpiredUnchecked(r, t) ==
    LET path == r.tasks[t].path
        command == r.pathsToCommands[path]
    IN  IF command # 0
        THEN [destroy(r, command) EXCEPT !.tasks[t].pc = "reloadDestroy",
                                         !.tasks[t].old = command]
        ELSE [r EXCEPT !.tasks[t].pc = "done"]

\* onCommandFileChanged after its await of the timer, up to the next await
onCommandFileChangedExpired(r, t) ==
    LET path == r.tasks[t].path
        command == r.pathsToCommands[path]
    IN  IF command # 0
        THEN IF r.desc[command].state = DESTROYING
             THEN [r EXCEPT !.tasks[t].pc = "done"]
             ELSE [destroy(r, command) EXCEPT !.tasks[t].pc = "reloadDestroy",
                                              !.tasks[t].old = command]
        ELSE [r EXCEPT !.tasks[t].pc = "done"]

FreeHandlers == {h \in Handlers : tasks[h].pc = "idle"}
LowestFree == CHOOSE h \in FreeHandlers : \A g \in FreeHandlers : h <= g

\* The watcher emits 'change' for a watched path whose file was written:
\* the file now holds module m.
FileChanged(path, m) ==
    /\ path \in watched
    /\ changes < MaxChanges
    /\ hasPending(Reg, path) \/ FreeHandlers # {}
    /\ files' = [files EXCEPT ![path] = m]
    /\ changes' = changes + 1
    /\ sinceChange' = [sinceChange EXCEPT ![path] = 0]
    /\ Becomes(onCommandFileChanged(Reg, path,
                   IF FreeHandlers # {} THEN LowestFree ELSE 0))

\* A timer reaches its deadline and calls back. The handler still awaiting
\* it resumes; a timer refreshed after it had fired calls a settled promise.
TimerFired(t) ==
    /\ tasks[t].armed
    /\ tasks[t].remaining = 0
    /\ LET r == [Reg EXCEPT !.tasks[t].armed = FALSE]
       IN  IF tasks[t].pc = "timer"
           THEN Becomes(onCommandFileChangedExpired(r, t))
           ELSE Becomes(r)
    /\ UNCHANGED << files, changes, sinceChange >>

\* `await command.destroy()` of onCommandFileChanged resolves: the path is
\* imported again, without watching
ReloadDestroyDone(t) ==
    /\ tasks[t].pc = "reloadDestroy"
    /\ Len(desc) < MaxDesc
    /\ Becomes(importCommand(destroyed(Reg, tasks[t].old), t, tasks[t].path,
                             FALSE, files))
    /\ UNCHANGED << files, changes, sinceChange >>

\* onCommandFileDeleted(path): the body is empty
onCommandFileDeleted(r, path) == r

\* The watcher emits 'unlink' for a watched path whose file was removed.
FileDeleted(path) ==
    /\ path \in watched
    /\ files[path] # Missing
    /\ files' = [files EXCEPT ![path] = Missing]
    /\ Becomes(onCommandFileDeleted(Reg, path))
    /\ UNCHANGED << changes, sinceChange >>

\* `await command.load()` of addCommand rejects: the error leaves addCommand
\* and is caught and logged by importCommand, which returns
LoadFailed(t) ==
    /\ tasks[t].pc = "load"
    /\ Becomes(importReturn(logError(Reg), t))
    /\ UNCHANGED << files, changes, sinceChange >>

\* `await <occupant>.destroy()` of add*Command rejects: the table is not
\* set and load() is not called; importCommand catches, logs and returns
AddDestroyFailed(t) ==
    /\ tasks[t].pc = "addDestroy"
    /\ Becomes(importReturn(logError(Reg), t))
    /\ UNCHANGED << files, changes, sinceChange >>

\* `await command.destroy()` of onCommandFileChanged rejects: the handler
\* rejects with it and runs none of its remaining statements
ReloadDestroyFailed(t) ==
    /\ tasks[t].pc = "reloadDestroy"
    /\ Becomes([Reg EXCEPT !.tasks[t].pc = "done"])
    /\ UNCHANGED << files, changes, sinceChange >>

Min(a, b) == IF a < b THEN a ELSE b
Max(a, b) == IF a > b THEN a ELSE b

\* TickMs milliseconds pass
Tick ==
    /\ \/ \E t \in TaskIds : tasks[t].armed /\ tasks[t].remaining > 0
       \/ \E p \in Paths : sinceChange[p] < FILE_UPDATE_TIMEOUT
    /\ tasks' = [t \in TaskIds |->
                   IF tasks[t].armed
                   THEN [tasks[t] EXCEPT !.remaining = Max(0, @ - TickMs)]
                   ELSE tasks[t]]
    /\ sinceChange' = [p \in Paths |->
                         Min(FILE_UPDATE_TIMEOUT, sinceChange[p] + TickMs)]
    /\ observed' = NoObs
    /\ logged' = 0
    /\ UNCHANGED << desc, commands, pathsToCommands, slashCommands,
                    pendingFileUpdate, userContextMenuCommands,
                    chatContextMenuCommands, watched, requireCache, files,
                    changes >>

\* ------------------------------------------------------------------ reads
\* Map.prototype.get: the value under key, or undefined (0)
get(map, key) == IF key \in DOMAIN map THEN map[key] ELSE 0

getSlashCommand(r, id) == get(r.slashCommands, id)

getUserContextMenuCommand(r, id) == get(r.userContextMenuCommands, id)

getChatContextMenuCommand(r, id) == get(r.userContextMenuCommands, id)

\* ECommandOptionType.SUB_COMMAND
SUB_COMMAND == "SUB_COMMAND"

\* Map.prototype.values(): the descriptors a table holds
values(map) == {map[k] : k \in DOMAIN map} \ {0}

\* groups[g] of the plain object `groups` is truthy: g is a key it was given
\* or a property it inherits
groupsHas(own, g) == g \in own \/ g \in ObjectPrototypeKeys

\* export(): the entries pushed to commandsToExport (their order is the
\* tables' insertion order and is not modelled), or the TypeError of
\* `groups[command.group].options.push` on an inherited property
export(r) ==
    LET slash == values(r.slashCommands)
        grouped == {c \in slash : r.desc[c].group # ""}
        created == {r.desc[c].group : c \in {d \in grouped :
                                        ~groupsHas({}, r.desc[d].group)}}
        sub(c) == [name |-> r.desc[c].name, type |-> SUB_COMMAND]
        top(c) == [name |-> r.desc[c].name, type |-> r.desc[c].type,
                   options |-> {}]
        parent(g) == [name |-> g, type |-> "",
                      options |-> {sub(c) : c \in {d \in grouped :
                                                     r.desc[d].group = g}}]
    IN  IF \E c \in grouped : r.desc[c].group \notin created
        THEN [threw |-> TRUE, entries |-> {}]
        ELSE [threw |-> FALSE,
              entries |-> {top(c) : c \in slash \ grouped}
                          \cup {parent(g) : g \in created}
                          \cup {top(c) : c \in values(r.userContextMenuCommands)}
                          \cup {top(c) : c \in values(r.chatContextMenuCommands)}]

\* An Interaction: its kind, its commandName and options.getSubcommand(false)
\* ("" for null).
Interactions ==
    [kind : {"command", "userContextMenu", "messageContextMenu", "button"},
     commandName : {"ping"}, subcommand : {""}]
    \cup [kind : {"command"}, commandName : {"add"}, subcommand : {""}]
    \cup [kind : {"command"}, commandName : {"list"}, subcommand : {"add", "ping"}]

isCommand(i) == i.kind = "command"
isContextMenu(i) == i.kind \in {"userContextMenu", "messageContextMenu"}
isUserContextMenu(i) == i.kind = "userContextMenu"

\* onInteractionCreate resolving a slash interaction by its top-level
\* commandName even when it carries a sub-command
onInteractionCreateByCommandName(r, i) ==
    IF ~isCommand(i) /\ ~isContextMenu(i)
    THEN [executed |-> << >>, threw |-> FALSE, replies |-> 0]
    ELSE LET command ==
               IF isCommand(i) THEN get(r.slashCommands, i.commandName)
               ELSE IF isUserContextMenu(i)
                    THEN get(r.userContextMenuCommands, i.commandName)
                    ELSE get(r.chatContextMenuCommands, i.commandName)
         IN  [executed |-> IF command # 0 THEN << command >> ELSE << >>,
              threw |-> FALSE, replies |-> 0]

\* onInteractionCreate answering an unresolved interaction with a reply
onInteractionCreateReplying(r, i) ==
    IF ~isCommand(i) /\ ~isContextMenu(i)
    THEN [executed |-> << >>, threw |-> FALSE, replies |-> 0]
    ELSE LET command ==
               IF isCommand(i)
               THEN IF i.subcommand # ""
                    THEN get(r.slashCommands, i.subcommand)
                    ELSE get(r.slashCommands, i.commandName)
               ELSE IF isUserContextMenu(i)
                    THEN get(r.userContextMenuCommands, i.commandName)
                    ELSE get(r.chatContextMenuCommands, i.commandName)
         IN  [executed |-> IF command # 0 THEN << command >> ELSE << >>,
              threw |-> FALSE, replies |-> IF command # 0 THEN 0 ELSE 1]

\* onInteractionCreate(interaction): the descriptor whose execute is awaited
\* (0: none), whether the handler threw, and the replies it sent itself
onInteractionCreate(r, i) ==
    IF ~isCommand(i) /\ ~isContextMenu(i)
    THEN [executed |-> << >>, threw |-> FALSE, replies |-> 0]
    ELSE LET command ==
               IF isCommand(i)
               THEN IF i.subcommand # ""
                    THEN get(r.slashCommands, i.subcommand)
                    ELSE get(r.slashCommands, i.commandName)
               ELSE IF isUserContextMenu(i)
                    THEN get(r.userContextMenuCommands, i.commandName)
                    ELSE IF isContextMenu(i)
                         THEN get(r.chatContextMenuCommands, i.commandName)
                         ELSE 0
         IN  [executed |-> IF command # 0 THEN << command >> ELSE << >>,
              threw |-> FALSE, replies |-> 0]

\* What the awaited command.execute(...) does: CommandBase.execute is
\* supplied by each command, so its outcome is an input of the dispatch.
ExecuteOutcomes == {"resolves", "rejects"}

\* onInteractionCreate with the body outside any try/catch: a rejection of
\* execute rejects the handler's own promise
onInteractionCreateUncaught(r, i, outcome) ==
    LET res == onInteractionCreate(r, i)
        rejected == res.executed # << >> /\ outcome = "rejects"
    IN  [executed |-> res.executed, replies |-> res.replies,
         rejected |-> rejected, threw |-> rejected, logs |-> 0]

\* onInteractionCreate to its end, given the outcome of the awaited execute:
\* try { ... await command.execute(...) } catch (error) { log(error) }
onInteractionCreateAwaited(r, i, outcome) ==
    LET res == onInteractionCreate(r, i)
        rejected == res.executed # << >> /\ outcome = "rejects"
    IN  [executed |-> res.executed, replies |-> res.replies,
         rejected |-> rejected, threw |-> FALSE,
         logs |-> IF rejected THEN 1 ELSE 0]

\* How the awaited axios.put(...) settles: fulfilled, rejected by the remote
\* with a response, rejected with no response at all (network failure,
\* timeout), or rejected with an error that is not an AxiosError.
PutOutcomes == {"ok", "axiosResponse", "axiosNoResponse", "other"}

\* uploadCommands(guild?): whether the PUT was made, whether the call threw,
\* and the errors it logged. export() runs before the try; the catch reads
\* error.response.data.errors of every AxiosError.
uploadCommands(r, outcome) ==
    IF export(r).threw
    THEN [put |-> FALSE, threw |-> TRUE, logs |-> 0]
    ELSE [put |-> TRUE,
          threw |-> outcome = "axiosNoResponse",
          logs |-> IF outcome = "axiosResponse" THEN 1 ELSE 0]

ReadLogging(o, n) ==
    /\ observed' = o
    /\ logged' = n
    /\ UNCHANGED << desc, commands, pathsToCommands, slashCommands,
                    pendingFileUpdate, userContextMenuCommands,
                    chatContextMenuCommands, watched, requireCache, tasks,
                    files, changes, sinceChange >>

Read(o) == ReadLogging(o, 0)

GetSlashCommand(id) ==
    Read([op |-> "getSlashCommand", id |-> id,
          result |-> getSlashCommand(Reg, id)])

GetUserContextMenuCommand(id) ==
    Read([op |-> "getUserContextMenuCommand", id |-> id,
          result |-> getUserContextMenuCommand(Reg, id)])

GetChatContextMenuCommand(id) ==
    Read([op |-> "getChatContextMenuCommand", id |-> id,
          result |-> getChatContextMenuCommand(Reg, id)])

Export == Read([op |-> "export", result |-> export(Reg)])

InteractionCreate(i, outcome) ==
    LET res == onInteractionCreateAwaited(Reg, i, outcome)
    IN  ReadLogging([op |-> "onInteractionCreate", interaction |-> i,
                     result |-> res], res.logs)

UploadCommands(outcome) ==
    LET res == uploadCommands(Reg, outcome)
    IN  ReadLogging([op |-> "uploadCommands", outcome |-> outcome,
                     result |-> res], res.logs)

Next ==
    \/ onLoad
    \/ onLoadImport
    \/ \E t \in TaskIds : AddDestroyDone(t)
    \/ \E t \in TaskIds : LoadDone(t)
    \/ \E p \in JsPaths, m \in EditedModules : FileChanged(p, m)
    \/ \E t \in Handlers : TimerFired(t)
    \/ \E t \in Handlers : ReloadDestroyDone(t)
    \/ Tick

Spec == Init /\ [][Next]_vars

\* The registry when load() and destroy() may reject and files may be
\* removed.
NextFail ==
    \/ onLoad
    \/ onLoadImport
    \/ \E t \in TaskIds : AddDestroyDone(t)
    \/ \E t \in TaskIds : LoadDone(t)
    \/ \E p \in JsPaths, m \in EditedModules : FileChanged(p, m)
    \/ \E t \in Handlers : TimerFired(t)
    \/ \E t \in Handlers : ReloadDestroyDone(t)
    \/ Tick
    \/ \E t \in TaskIds : LoadFailed(t)
    \/ \E t \in TaskIds : AddDestroyFailed(t)
    \/ \E t \in Handlers : ReloadDestroyFailed(t)
    \/ \E p \in JsPaths : FileDeleted(p)

SpecFail == Init /\ [][NextFail]_vars

\* The registry as it is built at boot from any command files, and read.
InitReads == Constructed(Modules)

NextReads ==
    \/ onLoad
    \/ onLoadImport
    \/ \E t \in TaskIds : AddDestroyDone(t)
    \/ \E t \in TaskIds : LoadDone(t)
    \/ \E id \in Names \cup {"list"} : GetSlashCommand(id)
    \/ \E id \in Names \cup {"list"} : GetUserContextMenuCommand(id)
    \/ \E id \in Names \cup {"list"} : GetChatContextMenuCommand(id)
    \/ Export
    \/ \E i \in Interactions, o \in ExecuteOutcomes : InteractionCreate(i, o)
    \/ \E o \in PutOutcomes : UploadCommands(o)

SpecReads == InitReads /\ [][NextReads]_vars

\* A task is inside addCommand or a reload, between two of its awaits.
Busy(t) == tasks[t].pc \in {"reloadDestroy", "addDestroy", "load"}

\* The calls run one after another: no call starts its addCommand or its
\* reload while another is suspended inside one.
OneAtATime(A) == A /\ Cardinality({t \in TaskIds : Busy(t)'}) <= 1

NextSeq ==
    \/ OneAtATime(onLoad)
    \/ OneAtATime(onLoadImport)
    \/ \E t \in TaskIds : OneAtATime(AddDestroyDone(t))
    \/ \E t \in TaskIds : OneAtATime(LoadDone(t))
    \/ \E p \in JsPaths, m \in EditedModules : OneAtATime(FileChanged(p, m))
    \/ \E t \in Handlers : OneAtATime(TimerFired(t))
    \/ \E t \in Handlers : OneAtATime(ReloadDestroyDone(t))
    \/ OneAtATime(Tick)

SpecSeq == Init /\ [][NextSeq]_vars

\* ------------------------------------------------------------------ claims
Descs == 1..Len(desc)
SameKey(c, d) == uniqueId(desc[c]) = uniqueId(desc[d])

\* C1: in every reachable state, under any interleaving of the imports and
\* reloads, at most one descriptor of a given (kind, name) is LOADED.
C1_AtMostOneLoadedPerKey ==
    \A c, d \in Descs :
        (c # d /\ SameKey(c, d)) =>
            ~(desc[c].state = LOADED /\ desc[d].state = LOADED)

\* the lookup table of a kind
TableOf(ty) ==
    CASE ty = SLASH -> slashCommands
      [] ty = USER_CONTEXT_MENU -> userContextMenuCommands
      [] ty = CHAT_CONTEXT_MENU -> chatContextMenuCommands

TableOfNext(ty) ==
    CASE ty = SLASH -> slashCommands'
      [] ty = USER_CONTEXT_MENU -> userContextMenuCommands'
      [] ty = CHAT_CONTEXT_MENU -> chatContextMenuCommands'

\* C2: when addCommand calls follow one another, a descriptor is inserted in
\* its kind table only once the occupant it replaces is DESTROYED and before
\* its own load() began; when the call completes the table holds the new
\* descriptor, which is the only one of its key that is not DESTROYED.
C2_Step ==
    /\ \A ty \in ECommandType, n \in Names :
         LET o == TableOf(ty)[n]
             d == TableOfNext(ty)[n]
         IN  d # o =>
               /\ o # 0 => desc'[o].state = DESTROYED
               /\ d \in Descs => desc[d].state = UNLOADED
               /\ desc'[d].state = LOADING
    /\ \A t \in TaskIds :
         (tasks[t].pc = "load" /\ tasks'[t].pc # "load") =>
           LET d == tasks[t].cmd
           IN  /\ TableOfNext(desc[d].type)[desc[d].name] = d
               /\ desc'[d].state = LOADED
               /\ \A c \in Descs \ {d} :
                    SameKey(c, d) => desc'[c].state = DESTROYED

\* C2: every step of calls that follow one another keeps the order destroy
\* old, insert new, load new, and a completed call leaves the new descriptor
\* registered.
C2_DestroyThenInsertThenLoad == [][C2_Step]_vars

\* a second descriptor of a key is registered and loaded, the first destroyed
C2_Witness ==
    \E c, d \in Descs :
        /\ c # d /\ SameKey(c, d)
        /\ desc[c].state = DESTROYED
        /\ desc[d].state = LOADED
        /\ TableOf(desc[d].type)[desc[d].name] = d
        /\ \A t \in TaskIds : ~Busy(t)

\* C3: in every reachable state the `commands` map and the kind table never
\* bind the same (kind, name) to two different descriptors.
C3_OneDescriptorPerKeyAcrossMaps ==
    \A ty \in ECommandType, n \in Names :
        (commands[<< ty, n >>] # 0 /\ TableOf(ty)[n] # 0) =>
            commands[<< ty, n >>] = TableOf(ty)[n]

\* the descriptors some registry map refers to, after the step
ReferencedNext ==
    values(commands') \cup values(slashCommands')
    \cup values(userContextMenuCommands') \cup values(chatContextMenuCommands')
    \cup values(pathsToCommands')

\* C5: when the re-import of a debounced reload completes, pathsToCommands
\* of the path is the new descriptor and no registry map refers to the
\* descriptor the reload destroyed.
C5_Step ==
    \A t \in Handlers :
        (tasks[t].pc = "load" /\ tasks'[t].pc # "load") =>
            /\ pathsToCommands'[tasks[t].path] = tasks[t].cmd
            /\ pathsToCommands[tasks[t].path] \notin ReferencedNext

\* C5: every completed reload leaves the path mapped to the new descriptor
\* and the destroyed descriptor unreferenced.
C5_ReloadRetargetsPath == [][C5_Step]_vars

\* the kind tables that hold descriptor d as a value
TablesHolding(d) == {ty \in ECommandType : d \in values(TableOf(ty))}

\* C6: whenever no addCommand and no reload is in progress, every descriptor
\* of the path map is a value of exactly one kind table.
C6_PathEntriesAreRegistered ==
    (\A t \in TaskIds : ~Busy(t)) =>
        \A p \in Paths :
            pathsToCommands[p] # 0 =>
                Cardinality(TablesHolding(pathsToCommands[p])) = 1

\* the timer of the burst handler t coalesces expires at this step
Expires(t) == tasks[t].pc = "timer" /\ tasks'[t].pc # "timer"

\* a reload of handler t's path starts at this step: destroy() is called on
\* the descriptor tracked for the path
ReloadStarts(t) ==
    /\ tasks[t].pc # "reloadDestroy"
    /\ tasks'[t].pc = "reloadDestroy"

\* C4 as stated: every burst of change events on a tracked path ends in
\* exactly one reload, started no earlier than FILE_UPDATE_TIMEOUT after the
\* last event of the burst.
C4_OriginalStep ==
    \A t \in Handlers :
        /\ Expires(t) =>
             /\ sinceChange[tasks[t].path] >= FILE_UPDATE_TIMEOUT
             /\ ReloadStarts(t)
        /\ ReloadStarts(t) => Expires(t)

C4_Step ==
    \A t \in Handlers :
        LET p == tasks[t].path
            command == pathsToCommands[p]
        IN  /\ Expires(t) =>
                 /\ sinceChange[p] >= FILE_UPDATE_TIMEOUT
                 /\ IF command # 0 /\ desc[command].state # DESTROYING
                    THEN /\ ReloadStarts(t)
                         /\ tasks'[t].old = command
                         /\ desc'[command].state = DESTROYING
                    ELSE /\ ~ReloadStarts(t)
                         /\ desc' = desc
            /\ ReloadStarts(t) => Expires(t)
            /\ (tasks[t].pc = "reloadDestroy" /\ tasks'[t].pc # "reloadDestroy") =>
                 /\ desc'[tasks[t].old].state \in {DESTROYED, DESTROYING}
                 /\ requireCache'[p] = files[p]
            /\ tasks'[t].pc = "timer" =>
                 \A u \in Handlers \ {t} :
                     ~(tasks'[u].pc = "timer" /\ tasks'[u].path = tasks'[t].path)

RegistryUnchanged ==
    UNCHANGED << desc, commands, pathsToCommands, slashCommands,
                 pendingFileUpdate, userContextMenuCommands,
                 chatContextMenuCommands, watched, requireCache >>

\* the descriptor registered under name n in the table of kind ty (0: none)
Registered(ty, n) == IF n \in Names THEN TableOf(ty)[n] ELSE 0

\* C7: each of the three lookups returns the descriptor registered under the
\* name in the table of its own kind, the not-found value when there is
\* none, and changes no registry state.
C7_Step ==
    /\ observed'.op = "getSlashCommand" =>
         /\ observed'.result = Registered(SLASH, observed'.id)
         /\ RegistryUnchanged
    /\ observed'.op = "getUserContextMenuCommand" =>
         /\ observed'.result = Registered(USER_CONTEXT_MENU, observed'.id)
         /\ RegistryUnchanged
    /\ observed'.op = "getChatContextMenuCommand" =>
         /\ observed'.result = Registered(CHAT_CONTEXT_MENU, observed'.id)
         /\ RegistryUnchanged

\* C7: every lookup returns the entry of the table of its own kind and
\* changes nothing.
C7_LookupsReadTheirOwnTable == [][C7_Step]_vars

\* the slash descriptors registered with group g
InGroup(g) == {c \in values(slashCommands) : desc[c].group = g}

\* the entries the claim says export() returns
ExpectedExport ==
    {[name |-> g, type |-> "",
      options |-> {[name |-> desc[c].name, type |-> SUB_COMMAND] : c \in InGroup(g)}]
        : g \in {h \in Groups \ {""} : InGroup(h) # {}}}
    \cup {[name |-> desc[c].name, type |-> desc[c].type, options |-> {}]
            : c \in InGroup("") \cup values(userContextMenuCommands)
                    \cup values(chatContextMenuCommands)}

\* C8: for every registry content export() returns one entry per non-empty
\* group, holding exactly the slash commands of the group as sub-commands,
\* and one entry per ungrouped slash, user-context-menu and
\* chat-context-menu command.
C8_ExportGroupsEveryRegistry ==
    observed.op = "export" =>
        /\ ~observed.result.threw
        /\ observed.result.entries = ExpectedExport

\* the descriptor the claim says an interaction resolves to (0: none)
Resolved(i) ==
    CASE i.kind = "command" /\ i.subcommand # "" -> Registered(SLASH, i.subcommand)
      [] i.kind = "command" /\ i.subcommand = "" -> Registered(SLASH, i.commandName)
      [] i.kind = "userContextMenu" -> Registered(USER_CONTEXT_MENU, i.commandName)
      [] i.kind = "messageContextMenu" -> Registered(CHAT_CONTEXT_MENU, i.commandName)
      [] OTHER -> 0

\* C9: a slash interaction is resolved in the slash table by its sub-command
\* name when it carries one, else by its command name; a user-context-menu
\* interaction in the user-context-menu table, any other context-menu
\* interaction in the chat-context-menu table; execute of the resolved
\* descriptor is called exactly once.
C9_DispatchResolvesByKindAndSubcommand ==
    (observed.op = "onInteractionCreate" /\ Resolved(observed.interaction) # 0) =>
        observed.result.executed = << Resolved(observed.interaction) >>

\* a slash interaction carrying sub-command 'add' under group 'list' was
\* dispatched to the descriptor 'add' of group 'list'
C9_Witness ==
    /\ observed.op = "onInteractionCreate"
    /\ observed.interaction.commandName = "list"
    /\ observed.interaction.subcommand = "add"
    /\ Len(observed.result.executed) = 1
    /\ desc[observed.result.executed[1]].name = "add"
    /\ desc[observed.result.executed[1]].group = "list"

\* C10: an interaction that resolves to no registered descriptor, or that is
\* neither a command nor a context-menu interaction, executes nothing,
\* throws nothing, is not replied to and leaves the registry unchanged.
C10_Step ==
    (observed'.op = "onInteractionCreate" /\ Resolved(observed'.interaction) = 0) =>
        /\ observed'.result.executed = << >>
        /\ ~observed'.result.threw
        /\ observed'.result.replies = 0
        /\ RegistryUnchanged

\* C10: every unresolved interaction is ignored.
C10_UnresolvedInteractionIsIgnored == [][C10_Step]_vars

\* a slash interaction for a name that is not registered was handled while
\* other commands are registered
C10_Witness ==
    /\ observed.op = "onInteractionCreate"
    /\ observed.interaction.kind = "command"
    /\ Resolved(observed.interaction) = 0
    /\ values(slashCommands) # {}

\* C11: a dispatch whose execute throws or rejects is caught inside
\* onInteractionCreate: the handler completes normally (nothing reaches its
\* caller), the error is logged once and the registry and every suspended
\* call are left as they were, so later dispatches resolve as before.
C11_Step ==
    (observed'.op = "onInteractionCreate" /\ observed'.result.rejected) =>
        /\ ~observed'.result.threw
        /\ logged' = 1
        /\ RegistryUnchanged
        /\ tasks' = tasks
        /\ \A j \in Interactions :
               onInteractionCreate(Reg, j).executed
                   = onInteractionCreate(Reg, j).executed'

\* C11 as a property of every step of the registry
C11_ExecuteFailureIsCaughtAndLogged == [][C11_Step]_vars

\* a dispatch that resolved a descriptor whose execute rejected
C11_Witness ==
    /\ observed.op = "onInteractionCreate"
    /\ observed.result.rejected
    /\ observed.result.executed # << >>
    /\ logged = 1

\* the module require(p) returns to an importCommand call that starts now
Required(p) ==
    IF pathsToCommands[p] # 0 \/ requireCache[p] = NoModule
    THEN files[p] ELSE requireCache[p]

\* commands, the three kind tables and pathsToCommands are left as they were
MapsUnchanged ==
    UNCHANGED << commands, slashCommands, userContextMenuCommands,
                 chatContextMenuCommands, pathsToCommands >>

\* the loop of onLoad calls importCommand for a .js file in this step
BootImports(p) ==
    /\ tasks[BootTask].pc = "bootLoop"
    /\ tasks'[BootTask] # tasks[BootTask]
    /\ tasks[BootTask].idx <= Len(commandsToImport)
    /\ p = commandsToImport[tasks[BootTask].idx]

\* the reload of handler t calls importCommand in this step
ReloadImports(t) ==
    tasks[t].pc = "reloadDestroy" /\ tasks'[t].pc # "reloadDestroy"

\* C12: an importCommand call for a module whose construction throws
\* completes normally: exactly one error is logged, commands, the three
\* kind tables and pathsToCommands are unchanged, no descriptor is created,
\* and the loop of onLoad is at its next file.
C12_Step ==
    /\ \A p \in JsPaths :
          (BootImports(p) /\ Required(p).throws) =>
              /\ logged' = 1
              /\ MapsUnchanged
              /\ desc' = desc
              /\ tasks'[BootTask].pc = "bootLoop"
              /\ tasks'[BootTask].idx = tasks[BootTask].idx + 1
    /\ \A t \in Handlers :
          (ReloadImports(t) /\ Required(tasks[t].path).throws) =>
              /\ logged' = 1
              /\ MapsUnchanged
              /\ Len(desc') = Len(desc)
              /\ tasks'[t].pc \in {"done", "idle"}

\* C12 as a property of every step of the registry
C12_ThrowingConstructorIsLoggedOnce == [][C12_Step]_vars

\* the first file of the directory threw at boot, the error was logged and
\* the loop is at the second file
C12_Witness ==
    /\ logged = 1
    /\ files[commandsToImport[1]].throws
    /\ tasks[BootTask].pc = "bootLoop"
    /\ tasks[BootTask].idx = 2
    /\ desc = << >>

\* the call of task t that was suspended inside addCommand fails in this
\* step and importCommand logs the error
ImportFails(t) ==
    /\ tasks[t].pc \in {"addDestroy", "load"}
    /\ tasks'[t] # tasks[t]
    /\ logged' = 1

\* C13: after an importCommand call that failed and was logged, no entry of
\* commands, of a kind table or of pathsToCommands refers to the descriptor
\* that call created.
C13_Step ==
    \A t \in TaskIds : ImportFails(t) => tasks[t].cmd \notin ReferencedNext

\* C13 as a property of every step of the registry
C13_FailedImportLeavesNoEntry == [][C13_Step]_vars

\* the file of path p is removed in this step (onCommandFileDeleted(p) runs)
Deleted(p) == files[p] # Missing /\ files'[p] = Missing

\* C14: a file-deleted event clears the pending debounce timer of its path:
\* after onCommandFileDeleted(path) pendingFileUpdate has no entry for the
\* path, and no reload starts for a path whose file is gone (no change
\* event has arrived since the deletion).
C14_Step ==
    /\ \A p \in JsPaths : Deleted(p) => pendingFileUpdate'[p] = 0
    /\ \A t \in Handlers :
          ReloadStarts(t) => files[tasks[t].path] # Missing

\* C14 as a property of every step of the registry
C14_DeletionClearsPendingTimer == [][C14_Step]_vars

\* C15: uploadCommands never throws or rejects: however the HTTP PUT fails
\* (remote rejection with a response body, no response at all, an error that
\* is not an HTTP error) the call completes normally.
C15_UploadFailureIsSwallowed ==
    (observed.op = "uploadCommands" /\ observed.result.put) =>
        ~observed.result.threw

\* C16: at the expiry of a path's debounce timer, if the descriptor tracked
\* for the path is DESTROYING the reload is aborted (destroy() is not called,
\* nothing is imported); otherwise destroy() is called on it and the path is
\* re-imported only in the step in which that destroy() has completed, with
\* bWatch false: the watch set is left as it was.
C16_Step ==
    \A t \in Handlers :
        LET p == tasks[t].path
            command == pathsToCommands[p]
        IN  /\ (Expires(t) /\ command # 0 /\ desc[command].state = DESTROYING) =>
                 /\ desc' = desc
                 /\ requireCache' = requireCache
                 /\ tasks'[t].pc \in {"done", "idle"}
            /\ (Expires(t) /\ command # 0 /\ desc[command].state # DESTROYING) =>
                 /\ desc'[command].destroys = desc[command].destroys + 1
                 /\ Len(desc') = Len(desc)
                 /\ tasks'[t].pc = "reloadDestroy"
                 /\ tasks'[t].old = command
            /\ (tasks'[t].cmd # 0 /\ tasks'[t].cmd # tasks[t].cmd) =>
                 /\ tasks[t].pc = "reloadDestroy"
                 /\ desc[tasks[t].old].state \in {DESTROYING, DESTROYED}
                 /\ desc[tasks[t].old].destroys > 0
                 /\ tasks'[t].path = p
                 /\ ~tasks'[t].bWatch
            /\ (Busy(t) /\ tasks'[t] # tasks[t]) => watched' = watched

\* C16 as a property of every step of the registry
C16_ExpiryAbortsOnDestroying == [][C16_Step]_vars

\* the reload of one path was aborted because the descriptor tracked for it
\* is DESTROYING: the re-import of the other path's reload (bWatch false)
\* found it under its own key and awaits its destroy()
C16_Witness ==
    \E t, u \in Handlers :
        /\ tasks[t].pc = "done"
        /\ pathsToCommands[tasks[t].path] # 0
        /\ desc[pathsToCommands[tasks[t].path]].state = DESTROYING
        /\ tasks[u].pc = "addDestroy"
        /\ ~tasks[u].bWatch
        /\ tasks[u].old = pathsToCommands[tasks[t].path]

\* the handler that owned timer t has ended without reloading, and the
\* timer, started again by a later change event, reaches its deadline
RetryWindowElapses(t) ==
    /\ tasks[t].pc = "done"
    /\ tasks[t].armed
    /\ ~tasks'[t].armed

\* C17: after a reload was skipped because the descriptor was DESTROYING, a
\* later change event for the path retries: when the debounce window it
\* starts elapses and the tracked descriptor is not DESTROYING, a reload of
\* the path starts.
C17_Step ==
    \A t \in Handlers :
        LET command == pathsToCommands[tasks[t].path]
        IN  (/\ RetryWindowElapses(t)
             /\ command # 0
             /\ desc[command].state # DESTROYING)
            => \E u \in Handlers :
                   ReloadStarts(u) /\ tasks'[u].path = tasks[t].path

\* C17 as a property of every step of the registry
C17_SkippedReloadIsRetried == [][C17_Step]_vars

\* an onCommandFileChanged call of handler t is suspended or running
InFlight(t) == tasks[t].pc \in {"timer", "reloadDestroy", "addDestroy", "load"}

\* C18: pendingFileUpdate has an entry for a path only while an
\* onCommandFileChanged handler is suspended or running for it: every way a
\* handler finishes removes the entry.
C18_PendingEntryHasLiveHandler ==
    \A p \in Paths :
        pendingFileUpdate[p] # 0 =>
            /\ InFlight(pendingFileUpdate[p])
            /\ tasks[pendingFileUpdate[p]].path = p

\* C19: destroy() is called at most once on any descriptor over its
\* lifetime, whatever imports, replacements and debounced reloads occur.
C19_DestroyCalledAtMostOnce ==
    \A d \in 1..Len(desc) : desc[d].destroys <= 1

\* C20: onInteractionCreate calls execute only on a descriptor that is
\* LOADED, also while an import, replacement or reload is suspended at an
\* await.
C20_OnlyLoadedDescriptorsExecute ==
    (observed.op = "onInteractionCreate" /\ observed.result.executed # << >>) =>
        desc[observed.result.executed[1]].state = LOADED

====
